---- MODULE Spec2Model ----
(***************************************************************************)
(* Stormspotter ingest models (src/stormspotter/ingest/models.py).         *)
(*                                                                         *)
(* One raw record is turned into one node plus a list of relationships.    *)
(* The construction of a record is modelled step by step (validation, the  *)
(* default-edge logic of the base class, the per-type relationship hook,   *)
(* the export), so that several constructions can be interleaved.          *)
(*                                                                         *)
(* Python values are tagged records ([t |-> "None"], [t |-> "str", ...]).  *)
(* A Python str is a sequence of tokens; the tokens "/", "providers" and   *)
(* "subscriptions" are the pieces of text the id parsing looks for, every  *)
(* other token is opaque text.                                             *)
(***************************************************************************)
EXTENDS Integers, Sequences, FiniteSets, TLC

(***************************************************************************)
(* Bounds of the model.                                                    *)
(***************************************************************************)
MaxIdLen == 3       \* tokens in an ARM id of a constructed record
MaxList == 2        \* entries in an owners / members list
MaxPolicies == 2    \* entries in properties.accessPolicies
MaxPathLen == 4     \* tokens in an id given to the accessors alone
MaxSlots == 2       \* constructions in flight at once

(***************************************************************************)
(* Python values.                                                          *)
(***************************************************************************)
None == [t |-> "None"]
Str(s) == [t |-> "str", v |-> s]
Bool(b) == [t |-> "bool", v |-> b]
List(s) == [t |-> "list", v |-> s]
Dict(f) == [t |-> "dict", v |-> f]
Raised(e) == [t |-> "raise", exc |-> e]

EmptyDict == [k \in {} |-> None]

\* d1 | d2 on Python dicts: the right operand wins on shared keys
Merge(d1, d2) ==
  [k \in (DOMAIN d1) \cup (DOMAIN d2) |-> IF k \in DOMAIN d2 THEN d2[k] ELSE d1[k]]

SetItem(d, key, value) ==
  [k \in (DOMAIN d) \cup {key} |-> IF k = key THEN value ELSE d[k]]

\* dict.pop-like removal of a set of keys (pydantic's exclude=)
Exclude(d, keys) == [k \in (DOMAIN d) \ keys |-> d[k]]

(***************************************************************************)
(* str operations used by the id parsing.                                  *)
(***************************************************************************)
Tokens == {"/", "providers", "subscriptions", "x"}

\* the tokens of the ids of constructed records: construction reads
\* resourcegroup only, which does not look for "subscriptions"
IdTokens == {"/", "providers", "x"}

RECURSIVE SeqsUpTo(_, _)
SeqsUpTo(S, n) ==
  IF n = 0 THEN {<<>>}
  ELSE LET shorter == SeqsUpTo(S, n - 1)
       IN shorter \cup {Append(s, e) : s \in {q \in shorter : Len(q) = n - 1}, e \in S}

MatchAt(s, sub, i) ==
  /\ i + Len(sub) - 1 <= Len(s)
  /\ \A k \in 1..Len(sub) : s[i + k - 1] = sub[k]

\* sub in s
In(sub, s) == \E i \in 1..Len(s) : MatchAt(s, sub, i)

RECURSIVE SplitFrom(_, _, _, _)
SplitFrom(s, sep, i, cur) ==
  IF i > Len(s) THEN <<cur>>
  ELSE IF MatchAt(s, sep, i)
       THEN <<cur>> \o SplitFrom(s, sep, i + Len(sep), <<>>)
       ELSE SplitFrom(s, sep, i + 1, Append(cur, s[i]))

\* s.split(sep)
split(s, sep) == SplitFrom(s, sep, 1, <<>>)

(***************************************************************************)
(* DynamicObject                                                           *)
(***************************************************************************)
DynamicObject(d) == [t |-> "DynamicObject", v |-> d]

\* json.loads(json.dumps(d), object_hook=DynamicObject): every mapping of
\* the tree becomes a DynamicObject, lists keep their shape, leaves stay
RECURSIVE from_dict(_)
from_dict(d) ==
  IF d.t = "dict"
    THEN DynamicObject([k \in DOMAIN d.v |-> from_dict(d.v[k])])
  ELSE IF d.t = "list"
    THEN List([i \in 1..Len(d.v) |-> from_dict(d.v[i])])
  ELSE d

\* attribute access obj.name
GetAttr(obj, name) ==
  IF obj.t = "DynamicObject" /\ name \in DOMAIN obj.v
    THEN obj.v[name]
    ELSE Raised("AttributeError")

\* operator.attrgetter("a.b.c")(obj), the path given as <<"a", "b", "c">>
RECURSIVE attrgetter(_, _)
attrgetter(path, obj) ==
  IF Len(path) = 0 THEN obj
  ELSE LET next == GetAttr(obj, Head(path))
       IN IF next.t = "raise" THEN next ELSE attrgetter(Tail(path), next)

\* truth value of a Python object: None is false, an instance of a class
\* without __bool__ / __len__ is true, containers are true when non-empty
Truthy(val) ==
  IF val.t = "None" THEN FALSE
  ELSE IF val.t = "list" THEN Len(val.v) > 0
  ELSE IF val.t = "dict" THEN DOMAIN val.v # {}
  ELSE IF val.t = "bool" THEN val.v
  ELSE IF val.t = "str" THEN Len(val.v) > 0
  ELSE TRUE

(***************************************************************************)
(* RelationLabels and the class declarations.                              *)
(***************************************************************************)
RelationLabels ==
  {"AttachedTo", "Authenticates", "ConnectedTo", "Contains", "Exposes",
   "HasAccessPolicies", "HasRbac", "HasRole", "Manages", "MemberOf", "Owns",
   "RepresentedBy", "Trusts"}

AADSubclasses ==
  {"AADApplication", "AADServicePrincipal", "AADGroup", "AADRole", "AADUser"}

ARMSubclasses ==
  {"Tenant", "Subscription", "ResourceGroup", "KeyVault", "StorageAccount"}

\* cls.__mro__[1].__name__
MroParent(cls) ==
  IF cls \in AADSubclasses THEN "AADObject"
  ELSE IF cls \in ARMSubclasses THEN "ARMResource"
  ELSE "Node"

\* str.upper() on the class names
Upper(name) ==
  CASE name = "AADObject" -> "AADOBJECT"
    [] name = "ARMResource" -> "ARMRESOURCE"
    [] name = "AADApplication" -> "AADAPPLICATION"
    [] name = "AADServicePrincipal" -> "AADSERVICEPRINCIPAL"
    [] name = "AADGroup" -> "AADGROUP"
    [] name = "AADRole" -> "AADROLE"
    [] name = "AADUser" -> "AADUSER"
    [] name = "Tenant" -> "TENANT"
    [] name = "Subscription" -> "SUBSCRIPTION"
    [] name = "ResourceGroup" -> "RESOURCEGROUP"
    [] name = "KeyVault" -> "KEYVAULT"
    [] name = "StorageAccount" -> "STORAGEACCOUNT"
    [] OTHER -> name

\* Node._labels
_labels(cls) ==
  IF cls = "Node" THEN None
  ELSE IF cls \in {"AADObject", "ARMResource"} THEN List(<<Upper(cls)>>)
  ELSE List(<<Upper(cls), Upper(MroParent(cls))>>)

\* the fields a class declares (the ones the relationship inference and the
\* export read; the remaining scalar fields of the concrete types behave
\* like displayName), with whether the field is required
DeclaredFields(cls) ==
  IF cls \in AADSubclasses
    THEN {"id", "displayName"}
           \cup (IF cls \in {"AADApplication", "AADServicePrincipal", "AADGroup"}
                   THEN {"owners"} ELSE {})
           \cup (IF cls \in {"AADGroup", "AADRole"} THEN {"members"} ELSE {})
    ELSE {"id", "location", "name", "properties", "tags"}

RequiredFields(cls) ==
  IF cls \in AADSubclasses
    THEN DeclaredFields(cls)
    ELSE {"id"}

\* ClassVar __arm_type__
__arm_type__(cls) ==
  CASE cls = "Tenant" -> "tenant"
    [] cls = "Subscription" -> "subscription"
    [] cls = "ResourceGroup" -> "microsoft.resources/resourcegroups"
    [] cls = "KeyVault" -> "microsoft.keyvault/vaults"
    [] cls = "StorageAccount" -> "microsoft.storage/storageaccounts"

\* ClassVar __xfields__: the dotted paths, each a sequence of segments
__xfields__(cls) ==
  IF cls = "KeyVault"
    THEN << <<"enableSoftDelete">>, <<"softDeleteRetentionInDays">>,
            <<"enableRbacAuthorization">>, <<"enablePurgeProtection">>,
            <<"vaultUri">> >>
  ELSE IF cls = "StorageAccount"
    THEN << <<"accessTier">>, <<"creationTime">>, <<"supportsHttpsTrafficOnly">> >>
  ELSE << >>

\* ClassVar __map_to_resourcegroup__
__map_to_resourcegroup__(cls) ==
  cls \notin {"Tenant", "Subscription", "ResourceGroup"}

\* utils.qualname_base: the short name of the class
qualname_base(cls) == cls

\* get_available_models
get_available_models ==
  LET aad_models == [k \in {qualname_base(c) : c \in AADSubclasses} |->
                       CHOOSE c \in AADSubclasses : qualname_base(c) = k]
      arm_models == [k \in {__arm_type__(c) : c \in ARMSubclasses} |->
                       CHOOSE c \in ARMSubclasses : __arm_type__(c) = k]
  IN Merge(aad_models, arm_models)

\* get_all_labels, as the set the sorted list holds
get_all_labels(models) ==
  {_labels(models[k]).v[1] : k \in DOMAIN models}

(***************************************************************************)
(* Relationship                                                            *)
(***************************************************************************)
\* format_properties without its DynamicObject branch
format_properties_dict_only(props) ==
  IF props.t = "dict" THEN props ELSE None

\* validator format_properties (pre=True, always=True)
format_properties(props) ==
  IF props.t = "dict" THEN props
  ELSE IF props.t = "DynamicObject" THEN Dict(props.v)
  ELSE None

\* Relationship(source=..., ...): pydantic validates the fields; a source or
\* target that is not a str (None) or an unknown relation is a ValidationError
Relationship(source, source_label, target, target_label, relation, properties) ==
  IF \/ source.t # "str"
     \/ target.t # "str"
     \/ source_label.t # "list"
     \/ target_label.t # "list"
     \/ relation \notin RelationLabels
    THEN Raised("ValidationError")
    ELSE [t |-> "Relationship",
          source |-> source.v,
          source_label |-> source_label.v,
          target |-> target.v,
          target_label |-> target_label.v,
          relation |-> relation,
          properties |-> format_properties(properties)]

(***************************************************************************)
(* ARMResource accessors                                                   *)
(***************************************************************************)
\* property ARMResource.subscription, of the id string
subscription(id) ==
  IF In(<<"subscriptions">>, id)
    THEN LET parts == split(id, <<"/">>)
         IN IF Len(parts) >= 3 THEN Str(parts[3]) ELSE Raised("IndexError")
    ELSE None

\* resourcegroup taking the last piece of the split instead of the first
resourcegroup_last(id) ==
  IF In(<<"providers">>, id)
    THEN LET parts == split(id, <<"/", "providers">>) IN Str(parts[Len(parts)])
    ELSE None

\* property ARMResource.resourcegroup, of the id string
resourcegroup(id) ==
  IF In(<<"providers">>, id)
    THEN Str(split(id, <<"/", "providers">>)[1])
    ELSE None

(***************************************************************************)
(* The input records.                                                      *)
(***************************************************************************)
AADIds == {<<"a1">>, <<"u1">>}
PrincipalIds == {<<"u1">>, <<"u2">>}

StrList(ids) == List([k \in 1..Len(ids) |-> Str(ids[k])])

\* an owners / members value of a raw record: absent (None) or a list of ids
OptIdLists == {None} \cup {StrList(ids) : ids \in SeqsUpTo(PrincipalIds, MaxList)}

KeysOnly == Dict([k \in {"keys"} |-> StrList(<< <<"get">> >>)])

KeysAndSecrets ==
  Dict([k \in {"keys", "secrets"} |->
          IF k = "keys" THEN StrList(<< <<"get">>, <<"list">> >>)
                        ELSE StrList(<< <<"get">> >>)])

\* entries of properties.accessPolicies; the last one has no permissions
Policies ==
  { Dict([k \in {"objectId", "permissions"} |->
            IF k = "objectId" THEN Str(<<"u1">>) ELSE KeysOnly]),
    Dict([k \in {"objectId", "permissions"} |->
            IF k = "objectId" THEN Str(<<"u2">>) ELSE KeysAndSecrets]),
    Dict([k \in {"objectId"} |-> Str(<<"u1">>)]) }

PolicyLists == {List(ps) : ps \in SeqsUpTo(Policies, MaxPolicies)}

\* a mapping from the keys whose value is present
Present(d) == [k \in {x \in DOMAIN d : d[x] # None} |-> d[k]]

\* the raw properties of an ARM record: absent (None) or a mapping, with
\* or without an access policy list, with or without the scalar settings
RawProperties ==
  {None} \cup
  { Dict(Present([k \in {"accessPolicies", "accessTier", "vaultUri"} |->
                    CASE k = "accessPolicies" -> ap
                      [] k = "accessTier" -> IF scalars THEN Str(<<"Hot">>) ELSE None
                      [] k = "vaultUri" -> IF scalars THEN Str(<<"https">>) ELSE None])) :
      ap \in {None} \cup PolicyLists,
      scalars \in BOOLEAN }

AADData(id, owners, members) ==
  Present([k \in {"id", "displayName", "owners", "members"} |->
             CASE k = "id" -> Str(id)
               [] k = "displayName" -> Str(<<"name">>)
               [] k = "owners" -> owners
               [] k = "members" -> members])

ARMData(id, properties) ==
  Present([k \in {"id", "properties"} |->
             IF k = "id" THEN Str(id) ELSE properties])

AADRecords ==
  { [disc |-> qualname_base(c), data |-> AADData(id, o, m)] :
      c \in AADSubclasses, id \in AADIds, o \in OptIdLists, m \in OptIdLists }

ARMRecords ==
  { [disc |-> __arm_type__(c), data |-> ARMData(id, props)] :
      c \in ARMSubclasses, id \in SeqsUpTo(IdTokens, MaxIdLen), props \in RawProperties }

Records == AADRecords \cup ARMRecords

\* the records of the interleaved constructions
ConcRecords ==
  LET rgid == <<"x", "/", "providers">>
      policy == Dict([k \in {"objectId", "permissions"} |->
                        IF k = "objectId" THEN Str(<<"u1">>)
                        ELSE Dict([j \in {"keys"} |-> StrList(<< <<"get">> >>)])])
  IN { [disc |-> "microsoft.storage/storageaccounts",
        data |-> ARMData(rgid, Dict([k \in {"accessTier"} |-> Str(<<"Hot">>)]))],
       [disc |-> "microsoft.storage/storageaccounts",
        data |-> ARMData(<<"x">>, None)],
       [disc |-> "microsoft.keyvault/vaults",
        data |-> ARMData(rgid, Dict([k \in {"accessPolicies", "vaultUri"} |->
                                       IF k = "accessPolicies" THEN List(<<policy>>)
                                       ELSE Str(<<"https">>)]))],
       [disc |-> "microsoft.keyvault/vaults",
        data |-> ARMData(rgid, Dict(EmptyDict))],
       [disc |-> "microsoft.resources/resourcegroups",
        data |-> ARMData(<<"x">>, None)],
       [disc |-> "AADGroup",
        data |-> AADData(<<"a1">>, StrList(<< <<"u1">> >>), StrList(<< <<"u2">> >>))],
       [disc |-> "AADApplication",
        data |-> AADData(<<"a1">>, None, None)],
       [disc |-> "AADUser",
        data |-> AADData(<<"u1">>, None, None)] }

(***************************************************************************)
(* Construction of one instance, as functions of the instance.             *)
(***************************************************************************)
\* validator ARMResource.convert_to_list (tags)
convert_to_list(dict_value) ==
  IF Truthy(dict_value) THEN dict_value ELSE None

\* validator ARMResource.props_to_obj
props_to_obj(dict_value) == from_dict(dict_value)

DataGet(data, key) == IF key \in DOMAIN data THEN data[key] ELSE None

\* BaseModel.__init__ (super().__init__(**data)): the declared fields, extra
\* keys ignored; a missing required field is a ValidationError
ValidateFields(cls, data) ==
  IF \E f \in RequiredFields(cls) : f \notin DOMAIN data
    THEN Raised("ValidationError")
    ELSE Dict([f \in DeclaredFields(cls) |->
                 CASE f = "properties" -> props_to_obj(DataGet(data, f))
                   [] f = "tags" -> convert_to_list(DataGet(data, f))
                   [] OTHER -> DataGet(data, f)])

\* getattr(self, name, default)
getattr(fields, name, default) ==
  IF name \in DOMAIN fields THEN fields[name] ELSE default

\* a loop that appends items to a list until one of them raises
FirstRaise(items) ==
  IF \E k \in 1..Len(items) : items[k].t = "raise"
    THEN CHOOSE k \in 1..Len(items) :
           /\ items[k].t = "raise"
           /\ \A j \in 1..(k - 1) : items[j].t # "raise"
    ELSE 0

Appended(rels, items) ==
  IF FirstRaise(items) = 0 THEN rels \o items
  ELSE rels \o SubSeq(items, 1, FirstRaise(items) - 1)

RaisedBy(items) ==
  IF FirstRaise(items) = 0 THEN None ELSE items[FirstRaise(items)]

\* AADObject.__init__, the owner relations
OwnsEdge(cls, fields, owner) ==
  Relationship(fields["id"], _labels(cls), owner, _labels("AADObject"), "Owns", None)

OwnerRelations(cls, fields) ==
  LET owners == getattr(fields, "owners", List(<<>>)).v
  IN [k \in 1..Len(owners) |-> OwnsEdge(cls, fields, owners[k])]

\* AADObject.__init__, the member relations
MemberOfEdge(cls, fields, member) ==
  Relationship(member, _labels("AADObject"), fields["id"], _labels(cls), "MemberOf", None)

MemberRelations(cls, fields) ==
  LET members == getattr(fields, "members", List(<<>>)).v
  IN [k \in 1..Len(members) |-> MemberOfEdge(cls, fields, members[k])]

\* ARMResource.__init__, the extraction loop over __xfields__
RECURSIVE ExtractLoop(_, _, _)
ExtractLoop(xfields, properties, xdict) ==
  IF Len(xfields) = 0 THEN xdict
  ELSE LET field == Head(xfields)
           got == attrgetter(field, properties)
           value == IF got.t = "raise" THEN None ELSE got
           field_name == field[Len(field)]
       IN ExtractLoop(Tail(xfields), properties, SetItem(xdict, field_name, value))

Extracted(cls, fields, xdict) ==
  IF Truthy(fields["properties"]) /\ Len(__xfields__(cls)) > 0
    THEN ExtractLoop(__xfields__(cls), fields["properties"], xdict)
    ELSE xdict

\* ARMResource.__init__, the default resource group relationship
ContainsRelations(cls, fields) ==
  IF __map_to_resourcegroup__(cls)
    THEN << Relationship(resourcegroup(fields["id"].v), _labels("ResourceGroup"),
                         fields["id"], _labels(cls), "Contains", None) >>
    ELSE << >>

\* KeyVault.__relationships__: one item per policy, until one raises
PolicyEdge(cls, fields, policy) ==
  LET objectId == GetAttr(policy, "objectId")
      permissions == GetAttr(policy, "permissions")
  IN IF objectId.t = "raise" THEN objectId
     ELSE IF permissions.t = "raise" THEN permissions
     ELSE Relationship(objectId, _labels("AADObject"), fields["id"], _labels(cls),
                       "HasAccessPolicies", permissions)

KeyVault__relationships__(cls, fields) ==
  LET accessPolicies == GetAttr(fields["properties"], "accessPolicies")
  IN IF accessPolicies.t = "raise" THEN <<accessPolicies>>
     ELSE IF accessPolicies.t # "list" THEN <<Raised("TypeError")>>
     ELSE [k \in 1..Len(accessPolicies.v) |-> PolicyEdge(cls, fields, accessPolicies.v[k])]

\* Node.__relationships__: the generator yields one item, an empty list
Node__relationships__(cls, fields) == << List(<<>>) >>

\* self.__relationships__(), by method resolution
__relationships__(cls, fields) ==
  IF cls = "KeyVault" THEN KeyVault__relationships__(cls, fields)
  ELSE Node__relationships__(cls, fields)

\* AADObject.node
AADObject_node(fields, rels) ==
  Merge(Exclude(fields, {"owners", "members"}),
        [k \in {"_relationships"} |-> List(rels)])

\* ARMResource.node
ARMResource_node(fields, xdict, rels) ==
  Merge(Merge(Exclude(fields, {"properties"}), xdict),
        [k \in {"_relationships"} |-> List(rels)])

(***************************************************************************)
(* State.                                                                  *)
(*   inst            per construction: position, raw record, class, the    *)
(*                   validated fields, the exception that ended it         *)
(*   _relationships  the private relationship lists                        *)
(*   __xdict__       the private promoted-field mappings                   *)
(*   registry        AVAILABLE_MODELS                                      *)
(*   exported        what node() returned                                  *)
(*   acc             an id string and what the two accessors returned      *)
(***************************************************************************)
VARIABLES inst, _relationships, __xdict__, registry, exported, acc

vars == <<inst, _relationships, __xdict__, registry, exported, acc>>

Slots == 1..MaxSlots

\* PrivateAttr(default_factory=list): the list instance i appends to
RelCell(i) == i

\* one mapping held by the class, shared by every instance
XdictCellShared(i) == 1

\* PrivateAttr(default_factory=dict): the mapping instance i writes to
XdictCell(i) == i

Unread == [t |-> "unread"]

Off == [pc |-> "off", rec |-> None, cls |-> "Node", fields |-> EmptyDict, exc |-> None]

Fresh(rec) ==
  [pc |-> "start", rec |-> rec, cls |-> "Node", fields |-> EmptyDict, exc |-> None]

NoAcc == [id |-> <<>>, subscription |-> Unread, resourcegroup |-> Unread]

InitCommon ==
  /\ _relationships = [c \in Slots |-> <<>>]
  /\ __xdict__ = [c \in Slots |-> EmptyDict]
  /\ registry = get_available_models
  /\ exported = [i \in Slots |-> None]

\* one record is constructed
Init ==
  /\ InitCommon
  /\ \E rec \in Records : inst = [i \in Slots |-> IF i = 1 THEN Fresh(rec) ELSE Off]
  /\ acc = NoAcc

\* the pipeline constructs several records at once
InitConc ==
  /\ InitCommon
  /\ inst \in [Slots -> {Fresh(rec) : rec \in ConcRecords}]
  /\ acc = NoAcc

\* the accessors of an ARM resource with a given id
InitId ==
  /\ InitCommon
  /\ inst = [i \in Slots |-> Off]
  /\ \E id \in SeqsUpTo(Tokens, MaxPathLen) :
       acc = [id |-> id, subscription |-> Unread, resourcegroup |-> Unread]

Fail(i, e) == [inst EXCEPT ![i].pc = "failed", ![i].exc = e]

Goto(i, pc) == [inst EXCEPT ![i].pc = pc]

\* the registry resolves the class, then BaseModel.__init__ validates the
\* fields and initialises the private attributes
Validate(i) ==
  /\ inst[i].pc = "start"
  /\ LET cls == registry[inst[i].rec.disc]
         validated == ValidateFields(cls, inst[i].rec.data)
     IN IF validated.t = "raise"
          THEN /\ inst' = [inst EXCEPT ![i].pc = "failed", ![i].cls = cls,
                                       ![i].exc = validated]
               /\ UNCHANGED <<_relationships, __xdict__>>
          ELSE /\ inst' = [inst EXCEPT ![i].cls = cls, ![i].fields = validated.v,
                                       ![i].pc = IF cls \in AADSubclasses
                                                   THEN "owners" ELSE "xfields"]
               /\ _relationships' = [_relationships EXCEPT ![RelCell(i)] = <<>>]
               /\ __xdict__' = IF cls \in ARMSubclasses
                                 THEN [__xdict__ EXCEPT ![XdictCell(i)] = EmptyDict]
                                 ELSE __xdict__
  /\ UNCHANGED <<registry, exported, acc>>

\* appends items to the relationships of instance i; the first item that
\* raises ends the construction
Extend(i, items, pc) ==
  /\ _relationships' = [_relationships EXCEPT
                          ![RelCell(i)] = Appended(_relationships[RelCell(i)], items)]
  /\ inst' = IF RaisedBy(items) = None THEN Goto(i, pc) ELSE Fail(i, RaisedBy(items))

\* AADObject.__init__: "Process owner relations"
ProcessOwners(i) ==
  /\ inst[i].pc = "owners"
  /\ Extend(i, OwnerRelations(inst[i].cls, inst[i].fields), "members")
  /\ UNCHANGED <<__xdict__, registry, exported, acc>>

\* AADObject.__init__: "Process member relations"
ProcessMembers(i) ==
  /\ inst[i].pc = "members"
  /\ Extend(i, MemberRelations(inst[i].cls, inst[i].fields), "hook")
  /\ UNCHANGED <<__xdict__, registry, exported, acc>>

\* ARMResource.__init__: "Grab the field from the properties"
ExtractFields(i) ==
  /\ inst[i].pc = "xfields"
  /\ __xdict__' = [__xdict__ EXCEPT
                     ![XdictCell(i)] = Extracted(inst[i].cls, inst[i].fields,
                                                 __xdict__[XdictCell(i)])]
  /\ inst' = Goto(i, "contains")
  /\ UNCHANGED <<_relationships, registry, exported, acc>>

\* ARMResource.__init__: "Add default resource group relationship"
MapToResourceGroup(i) ==
  /\ inst[i].pc = "contains"
  /\ Extend(i, ContainsRelations(inst[i].cls, inst[i].fields), "hook")
  /\ UNCHANGED <<__xdict__, registry, exported, acc>>

\* self._relationships.extend(self.__relationships__())
ExtendRelationships(i) ==
  /\ inst[i].pc = "hook"
  /\ Extend(i, __relationships__(inst[i].cls, inst[i].fields), "done")
  /\ UNCHANGED <<__xdict__, registry, exported, acc>>

\* the exporter calls node() of a constructed AAD object
ExportAAD(i) ==
  /\ inst[i].pc = "done"
  /\ inst[i].cls \in AADSubclasses
  /\ exported' = [exported EXCEPT
                    ![i] = Dict(AADObject_node(inst[i].fields,
                                               _relationships[RelCell(i)]))]
  /\ inst' = Goto(i, "exported")
  /\ UNCHANGED <<_relationships, __xdict__, registry, acc>>

\* the exporter calls node() of a constructed ARM resource
ExportARM(i) ==
  /\ inst[i].pc = "done"
  /\ inst[i].cls \in ARMSubclasses
  /\ exported' = [exported EXCEPT
                    ![i] = Dict(ARMResource_node(inst[i].fields,
                                                 __xdict__[XdictCell(i)],
                                                 _relationships[RelCell(i)]))]
  /\ inst' = Goto(i, "exported")
  /\ UNCHANGED <<_relationships, __xdict__, registry, acc>>

\* reading the subscription property
ReadSubscription ==
  /\ acc.subscription = Unread
  /\ inst[1].pc = "off"
  /\ acc' = [acc EXCEPT !.subscription = subscription(acc.id)]
  /\ UNCHANGED <<inst, _relationships, __xdict__, registry, exported>>

\* reading the resourcegroup property
ReadResourcegroup ==
  /\ acc.resourcegroup = Unread
  /\ inst[1].pc = "off"
  /\ acc' = [acc EXCEPT !.resourcegroup = resourcegroup(acc.id)]
  /\ UNCHANGED <<inst, _relationships, __xdict__, registry, exported>>

Next ==
  \/ \E i \in Slots : Validate(i)
  \/ \E i \in Slots : ProcessOwners(i)
  \/ \E i \in Slots : ProcessMembers(i)
  \/ \E i \in Slots : ExtractFields(i)
  \/ \E i \in Slots : MapToResourceGroup(i)
  \/ \E i \in Slots : ExtendRelationships(i)
  \/ \E i \in Slots : ExportAAD(i)
  \/ \E i \in Slots : ExportARM(i)

NextId ==
  \/ ReadSubscription
  \/ ReadResourcegroup

Spec == Init /\ [][Next]_vars

SpecConc == InitConc /\ [][Next]_vars

SpecId == InitId /\ [][NextId]_vars

(***************************************************************************)
(* Properties.                                                             *)
(***************************************************************************)
Constructed(i) == inst[i].pc \in {"done", "exported"}

IsAAD(i) == inst[i].cls \in AADSubclasses

IsARM(i) == inst[i].cls \in ARMSubclasses

RelsOf(i) == _relationships[RelCell(i)]

XdictOf(i) == __xdict__[XdictCell(i)]

IdOf(i) == inst[i].fields["id"].v

RawOf(i) == inst[i].rec.data

IsEdge(r, relation) == r.t = "Relationship" /\ r.relation = relation

EdgeIndices(rels, relation) == {j \in 1..Len(rels) : IsEdge(rels[j], relation)}

\* the id has a path segment "providers": "/providers" followed by "/" or
\* by the end of the id
HasProvidersSegment(id) ==
  \E k \in 1..(Len(id) - 1) :
    /\ id[k] = "/"
    /\ id[k + 1] = "providers"
    /\ (k + 1 = Len(id) \/ id[k + 2] = "/")

HasProvidersText(id) ==
  \E k \in 1..(Len(id) - 1) : id[k] = "/" /\ id[k + 1] = "providers"

\* the id up to its first "/providers"
TruncatedAtProviders(id) ==
  LET k == CHOOSE n \in 1..(Len(id) - 1) :
             /\ id[n] = "/" /\ id[n + 1] = "providers"
             /\ \A m \in 1..(n - 1) : ~(id[m] = "/" /\ id[m + 1] = "providers")
  IN SubSeq(id, 1, k - 1)

OptsOutOfResourceGroup(cls) == cls \in {"Tenant", "Subscription", "ResourceGroup"}

\* C1: every AAD object constructed from a record that carries an owners
\* list has, for each owner o of the list, an Owns relationship with
\* source o and target the object's own id.
C1_OwnsFromOwnerToSelf ==
  \A i \in Slots :
    (Constructed(i) /\ IsAAD(i) /\ "owners" \in DOMAIN inst[i].fields) =>
      LET owners == RawOf(i)["owners"].v
      IN \A k \in 1..Len(owners) :
           \E j \in EdgeIndices(RelsOf(i), "Owns") :
             /\ RelsOf(i)[j].source = owners[k].v
             /\ RelsOf(i)[j].target = IdOf(i)

\* C2: an AAD object constructed with a members list of length k and no
\* owners has a relationship sequence of exactly k elements, the i-th a
\* MemberOf edge from members[i] to the object's id.
C2_ExactlyTheMemberOfEdges ==
  \A i \in Slots :
    (/\ Constructed(i) /\ IsAAD(i)
     /\ "members" \in DOMAIN inst[i].fields
     /\ "owners" \notin DOMAIN RawOf(i)) =>
      LET members == RawOf(i)["members"].v
      IN /\ Len(RelsOf(i)) = Len(members)
         /\ \A k \in 1..Len(members) :
              /\ IsEdge(RelsOf(i)[k], "MemberOf")
              /\ RelsOf(i)[k].source = members[k].v
              /\ RelsOf(i)[k].target = IdOf(i)

\* C3: for an ARM object of a type that maps to its resource group and an
\* id without a /providers segment, the resource-group step is no fault:
\* it does not end the construction, and it adds no Contains edge.
C3_NoProvidersIsNoFault ==
  \A i \in Slots :
    (/\ IsARM(i) /\ ~OptsOutOfResourceGroup(inst[i].cls)
     /\ inst[i].pc \in {"hook", "done", "exported", "failed"}
     /\ ~HasProvidersSegment(IdOf(i))) =>
      /\ ~(inst[i].pc = "failed" /\ inst[i].exc = Raised("ValidationError"))
      /\ EdgeIndices(RelsOf(i), "Contains") = {}

C5_AccessPolicyEdges ==
  \A i \in Slots :
    (Constructed(i) /\ inst[i].cls = "KeyVault") =>
      LET policies == RawOf(i)["properties"].v["accessPolicies"].v
          edges == SelectSeq(RelsOf(i), LAMBDA r : IsEdge(r, "HasAccessPolicies"))
      IN /\ Len(edges) = Len(policies)
         /\ \A k \in 1..Len(policies) :
              /\ edges[k].source = policies[k].v["objectId"].v
              /\ edges[k].target = IdOf(i)
              /\ edges[k].properties = policies[k].v["permissions"]

C5_Witness ==
  \E i \in Slots :
    /\ Constructed(i)
    /\ inst[i].cls = "KeyVault"
    /\ LET policies == RawOf(i)["properties"].v["accessPolicies"].v
       IN /\ Len(policies) = 2
          /\ policies[1] # policies[2]
          /\ Cardinality(EdgeIndices(RelsOf(i), "HasAccessPolicies")) = 2

\* the value at a key of the raw properties, None when there is none
RawProperty(data, key) ==
  IF /\ "properties" \in DOMAIN data
     /\ data["properties"].t = "dict"
     /\ key \in DOMAIN data["properties"].v
    THEN data["properties"].v[key]
    ELSE None

\* C6: the exported node of an ARM type that declares extraction fields
\* has, for every declared path, a field named by the path's last segment
\* whose value is the one found in the record's properties, or null.
C6_PromotedFieldsExported ==
  \A i \in Slots :
    (inst[i].pc = "exported" /\ inst[i].cls \in {"KeyVault", "StorageAccount"}) =>
      \A n \in 1..Len(__xfields__(inst[i].cls)) :
        LET path == __xfields__(inst[i].cls)[n]
            key == path[Len(path)]
        IN /\ key \in DOMAIN exported[i].v
           /\ exported[i].v[key] = RawProperty(RawOf(i), key)

\* the id reads /subscriptions/S/... : S is the segment after /subscriptions/
MatchesSubscriptionGrammar(id) ==
  /\ Len(id) >= 4
  /\ id[1] = "/" /\ id[2] = "subscriptions" /\ id[3] = "/"
  /\ id[4] # "/"

SubscriptionSegment(id) ==
  LET stop == IF \E k \in 5..Len(id) : id[k] = "/"
                THEN CHOOSE k \in 5..Len(id) :
                       id[k] = "/" /\ \A m \in 5..(k - 1) : id[m] # "/"
                ELSE Len(id) + 1
  IN SubSeq(id, 4, stop - 1)

\* C7: the accessors never raise; subscription is S exactly when the id
\* reads /subscriptions/S/... and null otherwise; resourcegroup is the
\* prefix before /providers when the id has that segment, null otherwise.
C7_AccessorsTotal ==
  /\ acc.subscription # Unread =>
       /\ acc.subscription.t # "raise"
       /\ acc.subscription = IF MatchesSubscriptionGrammar(acc.id)
                               THEN Str(SubscriptionSegment(acc.id)) ELSE None
  /\ acc.resourcegroup # Unread =>
       /\ acc.resourcegroup.t # "raise"
       /\ acc.resourcegroup = IF HasProvidersSegment(acc.id)
                                THEN Str(TruncatedAtProviders(acc.id)) ELSE None

IsPrimitive(val) == val.t \in {"str", "bool", "int", "None"}

IsFlat(val) ==
  \/ IsPrimitive(val)
  \/ val.t = "list" /\ \A k \in 1..Len(val.v) : val.v[k].t = "str"

\* C8: every value of an exported node is a primitive or a flat list of
\* strings; properties, owners, members and the relationship list are not
\* among the values, the promoted fields are.
C8_NodeIsFlat ==
  \A i \in Slots :
    inst[i].pc = "exported" =>
      /\ \A k \in DOMAIN exported[i].v : IsFlat(exported[i].v[k])
      /\ DOMAIN exported[i].v \cap
           {"properties", "owners", "members", "_relationships"} = {}
      /\ IsARM(i) => DOMAIN XdictOf(i) \subseteq DOMAIN exported[i].v

(***************************************************************************)
(* What constructing a record alone produces.                              *)
(***************************************************************************)
AloneCls(rec) == get_available_models[rec.disc]

AloneFields(rec) == ValidateFields(AloneCls(rec), rec.data)

AloneSteps(rec) ==
  LET cls == AloneCls(rec)
      fields == AloneFields(rec).v
  IN IF cls \in AADSubclasses
       THEN << OwnerRelations(cls, fields), MemberRelations(cls, fields),
               __relationships__(cls, fields) >>
       ELSE << ContainsRelations(cls, fields), __relationships__(cls, fields) >>

RECURSIVE Flatten(_)
Flatten(steps) == IF Len(steps) = 0 THEN <<>> ELSE Head(steps) \o Flatten(Tail(steps))

AloneSucceeds(rec) ==
  /\ AloneFields(rec).t # "raise"
  /\ FirstRaise(Flatten(AloneSteps(rec))) = 0

AloneRelationships(rec) == Flatten(AloneSteps(rec))

AloneXdict(rec) == Extracted(AloneCls(rec), AloneFields(rec).v, EmptyDict)

OthersUntouched(i) ==
  \A j \in Slots \ {i} :
    /\ inst'[j] = inst[j]
    /\ RelsOf(j)' = RelsOf(j)
    /\ XdictOf(j)' = XdictOf(j)
    /\ exported'[j] = exported[j]

IsolatedResult ==
  \A i \in Slots :
    Constructed(i) =>
      /\ AloneSucceeds(inst[i].rec)
      /\ RelsOf(i) = AloneRelationships(inst[i].rec)
      /\ IsARM(i) => XdictOf(i) = AloneXdict(inst[i].rec)

IsolatedFailure ==
  \A i \in Slots :
    (inst[i].pc # "failed" /\ inst'[i].pc = "failed") =>
      /\ registry' = registry
      /\ OthersUntouched(i)

\* C9: whatever the interleaving, a constructed node's promoted fields and
\* relationships are those of constructing its record alone, and a failing
\* construction leaves the registry and every other construction unchanged.
C9_NoSharedState == [](IsolatedResult) /\ [][IsolatedFailure]_vars

C9_Witness ==
  \E i, j \in Slots :
    /\ i # j
    /\ inst[i].pc = "exported" /\ inst[i].cls = "StorageAccount"
    /\ DOMAIN XdictOf(i) # {}
    /\ inst[j].pc = "failed" /\ inst[j].cls = "KeyVault"
    /\ DOMAIN XdictOf(j) # {}

IsDefaultEdge(r) ==
  r.t = "Relationship" /\ r.relation \in {"Owns", "MemberOf", "Contains"}

\* C10: in a constructed node's relationship sequence every default edge
\* (Owns, MemberOf, Contains) precedes every element the hook contributed,
\* and a type that does not override the hook contributes no element.
C10_HookAfterDefaults ==
  \A i \in Slots :
    Constructed(i) =>
      /\ \A j, k \in 1..Len(RelsOf(i)) :
           (j < k /\ IsDefaultEdge(RelsOf(i)[k])) => IsDefaultEdge(RelsOf(i)[j])
      /\ inst[i].cls # "KeyVault" =>
           \A j \in 1..Len(RelsOf(i)) : IsDefaultEdge(RelsOf(i)[j])
====
